---- MODULE Spec2Model ----
(***************************************************************************)
(* Model of opendigger_pycli/cli/custom_types.py: the click parameter      *)
(* types FilteredMetricQueryType, IgnoredIndicatorNameType and             *)
(* IndicatorQueryType.  A string is a sequence of one-character strings.   *)
(***************************************************************************)
EXTENDS Integers, Sequences, FiniteSets, TLC

VARIABLES value, catalogue, params, lastOp, outcome

vars == <<value, catalogue, params, lastOp, outcome>>

(* ------------------------------ bounds -------------------------------- *)

\* longest token that is typed character by character
MaxLen == 4

\* the characters a token is typed from
Alphabet == {"p", "d", ":", " ", "=", ","}

\* str.strip() with no argument removes whitespace
Whitespace == {" "}

\* Python's None where a str is expected (no string equals it)
None == <<"None">>

\* Python's None where an IndicatorQuery is expected
NoneQuery == [isNone |-> TRUE, fields |-> <<>>]

(* ------------------------- str helpers (Python) ------------------------ *)

RECURSIVE lstrip(_)
lstrip(s) ==
    IF s = <<>> THEN s
    ELSE IF Head(s) \in Whitespace THEN lstrip(Tail(s)) ELSE s

RECURSIVE rstrip(_)
rstrip(s) ==
    IF s = <<>> THEN s
    ELSE IF s[Len(s)] \in Whitespace THEN rstrip(SubSeq(s, 1, Len(s) - 1)) ELSE s

\* str.strip()
strip(s) == rstrip(lstrip(s))

\* str.find(sep, from): index of the first sep at or after position i, 0 if none
RECURSIVE find(_, _, _)
find(s, sep, i) ==
    IF i > Len(s) THEN 0
    ELSE IF s[i] = sep THEN i ELSE find(s, sep, i + 1)

\* str.split(sep, 1): a list of one part (no sep) or two parts
split1(s, sep) ==
    LET i == find(s, sep, 1)
    IN  IF i = 0 THEN <<s>>
        ELSE <<SubSeq(s, 1, i - 1), SubSeq(s, i + 1, Len(s))>>

\* str.split(sep): every part
RECURSIVE split(_, _)
split(s, sep) ==
    LET i == find(s, sep, 1)
    IN  IF i = 0 THEN <<s>>
        ELSE <<SubSeq(s, 1, i - 1)>> \o split(SubSeq(s, i + 1, Len(s)), sep)

\* str.startswith(prefix)
startswith(s, prefix) ==
    /\ Len(prefix) <= Len(s)
    /\ SubSeq(s, 1, Len(prefix)) = prefix

(* --------------------------- dataloader names -------------------------- *)

ProjectOpenRankNetworkRepoDataloader_name == <<"p">>
DeveloperNetworkRepoDataloader_name == <<"d">>
RepoNetworkRepoDataloader_name == <<"d", "d">>
\* an indicator with no special treatment in the gate
PlainIndicator_name == <<"p", "d">>

(* ------------------------------ QueryParser ---------------------------- *)

\* field catalogue of the grammar: one known key, whose values are runs of "d"
KnownKeys == {<<"p">>}

Coercible(v) == v # <<>> /\ \A i \in 1..Len(v) : v[i] = "d"

\* classification of one clause given the keys already seen
ClauseDetail(clause, seen) ==
    LET kv == split1(clause, "=")
    IN  IF Len(kv) = 1 THEN "malformed_clause"
        ELSE IF strip(kv[1]) \notin KnownKeys THEN "unknown_key"
        ELSE IF strip(kv[1]) \in seen THEN "duplicate_key"
        ELSE IF ~Coercible(strip(kv[2])) THEN "coercion_failure"
        ELSE "ok"

RECURSIVE ClausesDetail(_, _)
ClausesDetail(clauses, seen) ==
    IF clauses = <<>> THEN "ok"
    ELSE LET d == ClauseDetail(Head(clauses), seen)
         IN  IF d # "ok" THEN d
             ELSE ClausesDetail(Tail(clauses),
                                seen \cup {strip(split1(Head(clauses), "=")[1])})

\* why the grammar rejects a body, "ok" when it accepts it
ParseDetail(body) ==
    IF strip(body) = <<>> THEN "empty_body"
    ELSE ClausesDetail(split(strip(body), ","), {})

ParseFields(body) ==
    LET clauses == split(strip(body), ",")
    IN  [i \in 1..Len(clauses) |->
            <<strip(split1(clauses[i], "=")[1]), strip(split1(clauses[i], "=")[2])>>]

\* QueryParser.try_parse_indicator_query: the query, or None on any failure
try_parse_indicator_query(body) ==
    IF ParseDetail(body) = "ok"
    THEN [isNone |-> FALSE, fields |-> ParseFields(body)]
    ELSE NoneQuery

(* ------------------------------ ctx ----------------------------------- *)

\* ctx.meta["filtered_dataloaders"]: the names in the dict's key order
FullCatalogue ==
    <<ProjectOpenRankNetworkRepoDataloader_name,
      DeveloperNetworkRepoDataloader_name,
      RepoNetworkRepoDataloader_name,
      PlainIndicator_name>>

Catalogues ==
    { FullCatalogue,
      <<PlainIndicator_name>>,
      <<RepoNetworkRepoDataloader_name, ProjectOpenRankNetworkRepoDataloader_name>> }

\* a query given with the uniform-query option
UniformQuery == [isNone |-> FALSE, fields |-> << <<<<"p">>, <<"d">>>> >>]

\* ctx.params: the sibling parameters collected so far
ParamSnapshots ==
    { [indicator_types |-> <<"index">>, introducers |-> <<"X-lab">>,
       uniform_query |-> NoneQuery],
      [indicator_types |-> <<"index", "metric">>, introducers |-> <<"CHAOSS">>,
       uniform_query |-> UniformQuery] }

\* tokens longer than MaxLen that are given whole
SampleTokens ==
    { <<>>,
      <<"p", "d", ":", "p", "=", "d">>,
      <<"p", ":", "p", "=", "d">>,
      <<"d", ":", "p", "=", "d">>,
      <<"d", "d", ":", "p", "=", "d">>,
      <<"d", "p", ":", "p", "=", "d">>,
      <<" ", "p", "d", " ", ":", " ", "p", "=", "d", " ">>,
      <<"p", "d", ":", "p", "=", "d", ",", "p", "=", "d">>,
      <<"p", "d", ":", "p", ":", "d">>,
      <<"p", "d", ":", "d", "=", "d">>,
      <<"p", "d", ":", "p", "=", "p">>,
      <<"p", "=", "d", ",", "p", "=", "d">>,
      <<" ", "p", " ", "=", " ", "d", " ">> }

(* ------------------------------ outcomes ------------------------------- *)

\* what known_names holds when a message lists no catalogue names
NoNames == <<None>>

NoOutcome ==
    [status |-> "none", reason |-> "none", name |-> None, body |-> None,
     query |-> NoneQuery, indicator_types |-> <<>>, introducers |-> <<>>,
     known_names |-> NoNames, parsed |-> FALSE, candidates |-> <<>>,
     split |-> <<None, None>>]

\* the locals indicator_name and indicator_query_str of the call
WithSplit(o, sp) == [o EXCEPT !.split = sp]

\* a returned value
Accepted(name, query, parsed) ==
    [NoOutcome EXCEPT !.status = "Accepted", !.name = name, !.query = query,
                      !.parsed = parsed]

\* self.fail(message): the reason and the values the message interpolates
Rejected(reason, name, body, parsed) ==
    [NoOutcome EXCEPT !.status = "Rejected", !.reason = reason, !.name = name,
                      !.body = body, !.parsed = parsed]

\* a returned list of CompletionItem
Completed(items) ==
    [NoOutcome EXCEPT !.status = "Completed", !.candidates = items]

(* ----------------------- FilteredMetricQueryType ----------------------- *)

\* the parts are returned as split, without stripping them
try_split_value_unstripped(v) ==
    LET stripped == strip(v)
        parts == split1(stripped, ":")
    IN  IF Len(parts) = 2
        THEN <<parts[1], parts[2]>>
        ELSE <<stripped, None>>

try_split_value(v) ==
    LET stripped == strip(v)
        parts == split1(stripped, ":")
    IN  IF Len(parts) = 2
        THEN <<strip(parts[1]), strip(parts[2])>>
        ELSE <<stripped, None>>

\* name in ctx.meta["filtered_dataloaders"]
InCatalogue(name, cat) == \E i \in 1..Len(cat) : cat[i] = name

\* the message of the unknown-name failure of the filtered gate
FilteredUnknownFail(name, cat, p) ==
    [Rejected("UnknownIndicator", name, None, FALSE)
        EXCEPT !.indicator_types = p.indicator_types,
               !.introducers = p.introducers,
               !.known_names = cat]

\* the uniform_query parameter is not looked at
requires_query_always(name, p) ==
    name = ProjectOpenRankNetworkRepoDataloader_name

\* the condition under which a bare name is refused
requires_query(name, p) ==
    /\ name = ProjectOpenRankNetworkRepoDataloader_name
    /\ p.uniform_query = NoneQuery

\* the repo-network indicator is forgotten
accepts_query_repo_network(name) ==
    name # DeveloperNetworkRepoDataloader_name

\* the condition under which a name with a query is let through to the parser
accepts_query(name) ==
    ~ \/ name = DeveloperNetworkRepoDataloader_name
      \/ name = RepoNetworkRepoDataloader_name

\* the parser's None is returned instead of failing
FilteredParse_unchecked(name, body) ==
    Accepted(name, try_parse_indicator_query(body), TRUE)

\* the parser step of the filtered gate
FilteredParse(name, body) ==
    LET indicator_query == try_parse_indicator_query(body)
    IN  IF indicator_query = NoneQuery
        THEN Rejected("InvalidQueryBody", None, body, TRUE)
        ELSE Accepted(name, indicator_query, TRUE)

\* the capability checks are made before the membership check
FilteredMetricQueryType_convert_capability_first(v, cat, p) ==
    LET sp == try_split_value(v)
        indicator_name == sp[1]
        indicator_query_str == sp[2]
    IN  WithSplit(
        IF indicator_query_str = None /\ requires_query(indicator_name, p)
        THEN Rejected("QueryRequired", indicator_name, None, FALSE)
        ELSE IF indicator_query_str # None /\ ~accepts_query(indicator_name)
        THEN Rejected("QueryNotSupported", indicator_name, None, FALSE)
        ELSE IF ~InCatalogue(indicator_name, cat)
        THEN FilteredUnknownFail(indicator_name, cat, p)
        ELSE IF indicator_query_str = None
        THEN Accepted(indicator_name, NoneQuery, FALSE)
        ELSE FilteredParse(indicator_name, indicator_query_str), sp)

FilteredMetricQueryType_convert(v, cat, p) ==
    LET sp == try_split_value(v)
        indicator_name == sp[1]
        indicator_query_str == sp[2]
    IN  WithSplit(
        IF ~InCatalogue(indicator_name, cat)
        THEN FilteredUnknownFail(indicator_name, cat, p)
        ELSE IF indicator_query_str = None
        THEN IF requires_query(indicator_name, p)
             THEN Rejected("QueryRequired", indicator_name, None, FALSE)
             ELSE Accepted(indicator_name, NoneQuery, FALSE)
        ELSE IF ~accepts_query(indicator_name)
        THEN Rejected("QueryNotSupported", indicator_name, None, FALSE)
        ELSE FilteredParse(indicator_name, indicator_query_str), sp)

\* the held query fragment is dropped
CompletionText_bare(name, query_str) == name

\* the text of one CompletionItem
CompletionText(name, query_str) ==
    IF query_str = None THEN name ELSE name \o <<":">> \o query_str

FilteredMetricQueryType_shell_complete(incomplete, cat) ==
    LET sp == try_split_value(incomplete)
        matching == SelectSeq(cat, LAMBDA name : startswith(name, sp[1]))
    IN  WithSplit(
        Completed([i \in 1..Len(matching) |-> CompletionText(matching[i], sp[2])]),
        sp)

(* ----------------------- IgnoredIndicatorNameType ---------------------- *)

\* the message of the unknown-name failure of the bare-name gate
IgnoredUnknownFail(name, cat, p) ==
    [Rejected("UnknownIndicator", name, None, FALSE)
        EXCEPT !.indicator_types = p.indicator_types,
               !.introducers = p.introducers]

\* the token is stripped before the lookup
IgnoredIndicatorNameType_convert_stripped(v, cat, p) ==
    LET indicator_name == strip(v)
    IN  IF ~InCatalogue(indicator_name, cat)
        THEN IgnoredUnknownFail(indicator_name, cat, p)
        ELSE Accepted(indicator_name, NoneQuery, FALSE)

IgnoredIndicatorNameType_convert(v, cat, p) ==
    LET indicator_name == v
    IN  IF ~InCatalogue(indicator_name, cat)
        THEN IgnoredUnknownFail(indicator_name, cat, p)
        ELSE Accepted(indicator_name, NoneQuery, FALSE)

IgnoredIndicatorNameType_shell_complete(incomplete, cat) ==
    Completed(SelectSeq(cat, LAMBDA name : startswith(name, incomplete)))

(* -------------------------- IndicatorQueryType ------------------------- *)

\* the failure is reported under the grammar's own reason
IndicatorQueryType_convert_detailed(v) ==
    LET query == try_parse_indicator_query(v)
    IN  IF query = NoneQuery
        THEN Rejected(ParseDetail(v), None, v, TRUE)
        ELSE Accepted(None, query, TRUE)

IndicatorQueryType_convert(v) ==
    LET query == try_parse_indicator_query(v)
    IN  IF query = NoneQuery
        THEN Rejected("InvalidQueryBody", None, v, TRUE)
        ELSE Accepted(None, query, TRUE)

(* ------------------------------ actions -------------------------------- *)

Init ==
    /\ value = <<>>
    /\ catalogue \in Catalogues
    /\ params \in ParamSnapshots
    /\ lastOp = "none"
    /\ outcome = NoOutcome

\* one more character of the token on the command line
TypeChar(c) ==
    /\ Len(value) < MaxLen
    /\ value' = Append(value, c)
    /\ lastOp' = "none"
    /\ outcome' = NoOutcome
    /\ UNCHANGED <<catalogue, params>>

\* another token of the command line
NewToken(tok) ==
    /\ value' = tok
    /\ lastOp' = "none"
    /\ outcome' = NoOutcome
    /\ UNCHANGED <<catalogue, params>>

\* the command installs another set of filtered dataloaders
SetCatalogue(cat) ==
    /\ catalogue' = cat
    /\ lastOp' = "none"
    /\ outcome' = NoOutcome
    /\ UNCHANGED <<value, params>>

\* the framework has parsed other parameters of the invocation
SetParams(p) ==
    /\ params' = p
    /\ lastOp' = "none"
    /\ outcome' = NoOutcome
    /\ UNCHANGED <<value, catalogue>>

\* the call drops the names it has looked at from the catalogue
FilteredConvert_mutating ==
    /\ lastOp' = "FilteredMetricQueryType.convert"
    /\ outcome' = FilteredMetricQueryType_convert(value, catalogue, params)
    /\ catalogue' = <<PlainIndicator_name>>
    /\ UNCHANGED <<value, params>>

FilteredConvert ==
    /\ lastOp' = "FilteredMetricQueryType.convert"
    /\ outcome' = FilteredMetricQueryType_convert(value, catalogue, params)
    /\ UNCHANGED <<value, catalogue, params>>

FilteredShellComplete ==
    /\ lastOp' = "FilteredMetricQueryType.shell_complete"
    /\ outcome' = FilteredMetricQueryType_shell_complete(value, catalogue)
    /\ UNCHANGED <<value, catalogue, params>>

IgnoredConvert ==
    /\ lastOp' = "IgnoredIndicatorNameType.convert"
    /\ outcome' = IgnoredIndicatorNameType_convert(value, catalogue, params)
    /\ UNCHANGED <<value, catalogue, params>>

IgnoredShellComplete ==
    /\ lastOp' = "IgnoredIndicatorNameType.shell_complete"
    /\ outcome' = IgnoredIndicatorNameType_shell_complete(value, catalogue)
    /\ UNCHANGED <<value, catalogue, params>>

IndicatorQueryConvert ==
    /\ lastOp' = "IndicatorQueryType.convert"
    /\ outcome' = IndicatorQueryType_convert(value)
    /\ UNCHANGED <<value, catalogue, params>>

Next ==
    \/ \E c \in Alphabet : TypeChar(c)
    \/ \E tok \in SampleTokens : NewToken(tok)
    \/ \E cat \in Catalogues : SetCatalogue(cat)
    \/ \E p \in ParamSnapshots : SetParams(p)
    \/ FilteredConvert
    \/ FilteredShellComplete
    \/ IgnoredConvert
    \/ IgnoredShellComplete
    \/ IndicatorQueryConvert

Spec == Init /\ [][Next]_vars

TypeOK ==
    /\ catalogue \in Catalogues
    /\ params \in ParamSnapshots
    /\ outcome.status \in {"none", "Accepted", "Rejected", "Completed"}

(* ------------------- the token, read without the code ------------------ *)

HasColon(s) == \E i \in 1..Len(s) : s[i] = ":"

FirstColon(s) ==
    CHOOSE i \in 1..Len(s) : s[i] = ":" /\ \A j \in 1..(i - 1) : s[j] # ":"

\* s without its leading and trailing whitespace
Trim(s) ==
    LET solid == {i \in 1..Len(s) : s[i] \notin Whitespace}
    IN  IF solid = {} THEN <<>>
        ELSE SubSeq(s, CHOOSE i \in solid : \A j \in solid : i <= j,
                       CHOOSE i \in solid : \A j \in solid : j <= i)

\* the text before the first ':' (the whole token when there is none), trimmed
NamePart(s) ==
    IF HasColon(s) THEN Trim(SubSeq(s, 1, FirstColon(s) - 1)) ELSE Trim(s)

\* the text after the first ':', trimmed
BodyPart(s) == Trim(SubSeq(s, FirstColon(s) + 1, Len(s)))

IsPrefix(pre, s) ==
    /\ Len(pre) <= Len(s)
    /\ \A k \in 1..Len(pre) : s[k] = pre[k]

CatalogueNames(cat) == {cat[i] : i \in 1..Len(cat)}

FilteredOps ==
    {"FilteredMetricQueryType.convert", "FilteredMetricQueryType.shell_complete"}

RejectedAs(reason) == outcome.status = "Rejected" /\ outcome.reason = reason

\* one body for each way the grammar rejects a body
FailingBodies ==
    { <<>>,
      <<"p">>,
      <<"p", "=", "d", ",", "p", "=", "d">>,
      <<"d", "=", "d">>,
      <<"p", "=", "p">> }

(* ------------------------------- claims -------------------------------- *)

\* C1: the split made by the filtered gate cuts the token at its first ':'
\* only: without a ':' it is (trimmed token, None); with one, the name is the
\* trimmed text before the first ':' and the body the trimmed text after it,
\* later ':' included, and the body is None exactly when there is no ':'.
C1_SplitOnFirstColon ==
    lastOp \in FilteredOps =>
        /\ ~HasColon(value) => outcome.split = <<Trim(value), None>>
        /\ HasColon(value) =>
              /\ outcome.split[1] = Trim(SubSeq(value, 1, FirstColon(value) - 1))
              /\ outcome.split[2] = Trim(SubSeq(value, FirstColon(value) + 1, Len(value)))
        /\ (outcome.split[2] = None) <=> ~HasColon(value)

C1_Witness ==
    /\ lastOp \in FilteredOps
    /\ value = <<"p", "d", ":", "p", ":", "d">>
    /\ outcome.split = <<<<"p", "d">>, <<"p", ":", "d">>>>

\* C2: a catalogue name that takes no query (developer network, repo network)
\* followed by ':' and any body is rejected as QueryNotSupported by the
\* filtered gate, and the parser is not called.
C2_QueryNotSupported ==
    ( /\ lastOp = "FilteredMetricQueryType.convert"
      /\ HasColon(value)
      /\ NamePart(value) \in CatalogueNames(catalogue)
      /\ NamePart(value) \in {DeveloperNetworkRepoDataloader_name,
                              RepoNetworkRepoDataloader_name} )
    => /\ RejectedAs("QueryNotSupported")
       /\ outcome.name = NamePart(value)
       /\ ~outcome.parsed

C2_Witness ==
    /\ lastOp = "FilteredMetricQueryType.convert"
    /\ NamePart(value) = RepoNetworkRepoDataloader_name
    /\ HasColon(value)
    /\ ParseDetail(BodyPart(value)) = "ok"
    /\ RejectedAs("QueryNotSupported")

\* C3: a bare catalogue name is rejected as QueryRequired exactly when it is
\* the project-openrank-network indicator and uniform_query is None; in every
\* other case the filtered gate returns (name, None).
C3_QueryRequired ==
    ( /\ lastOp = "FilteredMetricQueryType.convert"
      /\ ~HasColon(value)
      /\ Trim(value) \in CatalogueNames(catalogue) )
    => IF /\ Trim(value) = ProjectOpenRankNetworkRepoDataloader_name
          /\ params.uniform_query.isNone
       THEN RejectedAs("QueryRequired") /\ outcome.name = Trim(value)
       ELSE /\ outcome.status = "Accepted"
            /\ outcome.name = Trim(value)
            /\ outcome.query.isNone

C3_Witness ==
    /\ lastOp = "FilteredMetricQueryType.convert"
    /\ value = <<"p">>
    /\ ~params.uniform_query.isNone
    /\ outcome.status = "Accepted"
    /\ outcome.query.isNone

\* C4: for a catalogue name that takes queries and a token with a ':', the
\* filtered gate returns (name, query) with the parser's query when the parser
\* accepts the body and rejects the body as invalid when the parser fails, an
\* empty body included; a token with a ':' never gives (name, None).
C4_AllOrNothing ==
    ( /\ lastOp = "FilteredMetricQueryType.convert"
      /\ HasColon(value) )
    => /\ ~(outcome.status = "Accepted" /\ outcome.query.isNone)
       /\ ( /\ NamePart(value) \in CatalogueNames(catalogue)
            /\ NamePart(value) \notin {DeveloperNetworkRepoDataloader_name,
                                       RepoNetworkRepoDataloader_name} )
          => IF ParseDetail(BodyPart(value)) = "ok"
             THEN /\ outcome.status = "Accepted"
                  /\ outcome.name = NamePart(value)
                  /\ ~outcome.query.isNone
                  /\ outcome.query.fields = ParseFields(BodyPart(value))
             ELSE /\ RejectedAs("InvalidQueryBody")
                  /\ outcome.body = BodyPart(value)

C4_Witness ==
    /\ lastOp = "FilteredMetricQueryType.convert"
    /\ value = <<" ", "p", "d", " ", ":", " ", "p", "=", "d", " ">>
    /\ outcome.status = "Accepted"
    /\ outcome.name = PlainIndicator_name
    /\ outcome.query.fields = << <<<<"p">>, <<"d">>>> >>

\* C5: every unknown-name rejection, of the filtered gate and of the bare-name
\* gate, carries all the names of the catalogue.
C5_UnknownEnumeratesCatalogue ==
    ( /\ lastOp \in {"FilteredMetricQueryType.convert",
                     "IgnoredIndicatorNameType.convert"}
      /\ RejectedAs("UnknownIndicator") )
    => outcome.known_names = catalogue

\* C6: completion of the filtered gate gives one candidate for each catalogue
\* name that starts with the trimmed name fragment and nothing else: the bare
\* name when the token has no ':', the name, ':' and the held body otherwise.
C6_Expected(name) ==
    IF HasColon(value) THEN name \o <<":">> \o BodyPart(value) ELSE name

C6_Completion ==
    lastOp = "FilteredMetricQueryType.shell_complete" =>
        /\ outcome.status = "Completed"
        /\ \A i \in 1..Len(outcome.candidates) :
              \E n \in CatalogueNames(catalogue) :
                  /\ IsPrefix(NamePart(value), n)
                  /\ outcome.candidates[i] = C6_Expected(n)
        /\ \A n \in CatalogueNames(catalogue) :
              Cardinality({i \in 1..Len(outcome.candidates) :
                              outcome.candidates[i] = C6_Expected(n)})
                  = IF IsPrefix(NamePart(value), n) THEN 1 ELSE 0

C6_Witness ==
    /\ lastOp = "FilteredMetricQueryType.shell_complete"
    /\ catalogue = FullCatalogue
    /\ value = <<"d", " ", ":", "p">>
    /\ outcome.candidates = << <<"d", ":", "p">>, <<"d", "d", ":", "p">> >>

C8_SameLookup ==
    lastOp = "IgnoredIndicatorNameType.convert" =>
        ( RejectedAs("UnknownIndicator")
          <=> FilteredMetricQueryType_convert(value, catalogue, params).reason
                  = "UnknownIndicator" )

\* C8 as amended: the bare-name gate looks the token up as given, neither
\* trimmed nor split: it rejects as unknown exactly when the raw token is not
\* a catalogue name, and it agrees with the filtered gate on the tokens that
\* have no ':' and no surrounding whitespace.
C8_RawLookup ==
    lastOp = "IgnoredIndicatorNameType.convert" =>
        /\ RejectedAs("UnknownIndicator") <=> value \notin CatalogueNames(catalogue)
        /\ ~RejectedAs("UnknownIndicator")
              => outcome.status = "Accepted" /\ outcome.name = value
        /\ (~HasColon(value) /\ Trim(value) = value)
              => ( RejectedAs("UnknownIndicator")
                   <=> FilteredMetricQueryType_convert(value, catalogue, params).reason
                           = "UnknownIndicator" )

C8_Witness ==
    /\ lastOp = "IgnoredIndicatorNameType.convert"
    /\ value = <<" ", "p", "d">>
    /\ PlainIndicator_name \in CatalogueNames(catalogue)
    /\ RejectedAs("UnknownIndicator")

\* C9: a call of any of the gates leaves the token, the catalogue and the
\* sibling parameters as they were, and the same call made again right after
\* it gives the same outcome.
C9_CallStep == lastOp' # "none"

C10_MembershipFirst ==
    lastOp = "FilteredMetricQueryType.convert" =>
        /\ NamePart(value) \notin CatalogueNames(catalogue)
              => RejectedAs("UnknownIndicator") /\ outcome.name = NamePart(value)
        /\ ( /\ outcome.status = "Rejected"
             /\ outcome.reason \in {"QueryRequired", "QueryNotSupported",
                                    "InvalidQueryBody"} )
              => NamePart(value) \in CatalogueNames(catalogue)

C10_Witness ==
    /\ lastOp = "FilteredMetricQueryType.convert"
    /\ catalogue = <<PlainIndicator_name>>
    /\ value = <<"d", ":", "p", "=", "d">>
    /\ RejectedAs("UnknownIndicator")

====
